---- MODULE Spec2Model ----
(***************************************************************************)
(* One warm instance of the generic lambda function of                     *)
(* src/src/function/src/aws/nexmark/lambda.rs: the process-wide execution  *)
(* context with its Arena, the activations that the handler runs on it,    *)
(* and the asynchronous invocation of the next stage.                      *)
(***************************************************************************)
EXTENDS Integers, Sequences, FiniteSets, Bags, TLC

\* ---------------------------------------------------------------- bounds
\* Largest total_fragments (seq_len) of an inbound fan-out group.
MaxK == 3
\* Largest number of payloads delivered to a warm instance that reassembles.
MaxMsgs == 3
\* Largest number of payloads delivered to a warm instance that splits.
MaxInputs == 2
\* Largest number of record batches the sub-plan returns.
MaxOut == 2
\* Most non-acceptance answers the platform gives in all, apart from those
\* to the invocations it rejects forever.
MaxRejects == 2
\* Most activations in flight at once when the host does not serialize them.
MaxConcurrent == 2
\* globals["lambda"]["payload_batch_size"], the row target handed to coalesce:
\* a value of the deployment's configuration, fixed here.
payload_batch_size == 2
\* Largest globals["lambda"]["parallelism"], the partition target of
\* feed_one_source: a value of the deployment's configuration.
MaxParallelism == 2
\* Largest number of record batches of one kind in an external event.
MaxBids == 3
\* Largest opt.seconds and opt.generators of a run of the benchmark driver.
MaxSeconds == 2
MaxGenerators == 2

\* -------------------------------------------------------------- constants
\* The status the platform answers when an invocation is queued.
Accepted202 == 202

\* Row counts of the record batches the sub-plan may return.
RowCounts == {1, 2}
\* Group identities (tid) of the inbound fan-outs.
Groups == {"g1", "g2"}
\* Widths of the downstream group of a Chorus-routed stage.
ChorusWidths == {2}
\* ctx.name of the modelled stage.
StageName == "stage"

\* StreamWindow of a NexMarkEvent source: None, and two that the handler
\* leaves unimplemented.
Windows == {"None", "TumblingWindow", "SlidingWindow"}
\* ctx.query_number: Some(0) stands for the supported queries 0, 1 and 2,
\* Some(3) for every other.
QueryNumbers == {<<0>>, <<3>>}

NoEntry == [size |-> 0, batches |-> <<>>, present |-> FALSE]

Ids == Groups \X (0 .. MaxK - 1)

VARIABLES
    env,                \* the activation environment: the serialized descriptor
    EXECUTION_CONTEXT,  \* static mut EXECUTION_CONTEXT: (ctx, arena) or Uninitialized
    events,             \* the payloads the platform delivers, one per activation
    act,                \* the activations: position in the handler and its locals
    sent,               \* bag of the invocations the platform accepted
    fanouts,            \* number of UuidBuilders built so far
    rejecting,          \* sequence indices whose invocations the platform never accepts
    refusals,           \* number of non-acceptance answers given to the other invocations
    plan,               \* the sub-plan: the row counts of its output, or its failure
    putCount,           \* per group, the number of reassemble calls completed
    INIT,               \* static INIT: Once
    inits,              \* number of times the closure init_context has run
    parallelism,        \* globals["lambda"]["parallelism"], parsed as usize
    bench               \* the benchmark driver: its options, tasks and invocations

vars == <<env, EXECUTION_CONTEXT, events, act, sent, fanouts, rejecting, refusals,
          plan, putCount, INIT, inits, parallelism, bench>>

\* What no activation changes: the environment, the deliveries, the invocations
\* the platform never accepts, the sub-plan, the configuration and the driver.
fixed == <<env, events, rejecting, plan, parallelism, bench>>

\* ---------------------------------------------------------------- helpers
RECURSIVE SumOver(_, _)
SumOver(f, S) ==
    IF S = {} THEN 0
    ELSE LET x == CHOOSE y \in S : TRUE IN f[x] + SumOver(f, S \ {x})

Range(s) == {s[i] : i \in 1 .. Len(s)}

Min(a, b) == IF a < b THEN a ELSE b

\* CloudFunction: the routing of the stage (ctx.next).
CloudFunction ==
    {[kind |-> "None", name |-> "", num |-> 0],
     [kind |-> "Solo", name |-> "sink", num |-> 1]}
    \cup {[kind |-> "Chorus", name |-> "agg", num |-> w] : w \in ChorusWidths}

\* The descriptors ExecutionContext::unmarshal may yield: the stages fed by
\* upstream payloads, those fed by NexMark events, and one with a data source
\* the handler does not know.
Descriptors ==
    {[name |-> StageName, next |-> n, datasource |-> "Payload", window |-> "None",
      query_number |-> <<>>, source |-> <<>>] : n \in CloudFunction}
    \cup {[name |-> StageName, next |-> wqn[3],
           datasource |-> "NexMarkEvent", window |-> wqn[1], query_number |-> wqn[2],
           source |-> <<>>] :
            wqn \in {x \in Windows \X QueryNumbers \X CloudFunction :
                       /\ x[1] = "None" \/ x[2] = <<0>>
                       /\ \/ x[3].kind = "None"
                          \/ x[3].kind = "Solo" /\ x[1] = "None" /\ x[2] = <<0>>}}
    \cup {[name |-> StageName, next |-> [kind |-> "None", name |-> "", num |-> 0],
           datasource |-> "Other", window |-> "None", query_number |-> <<>>,
           source |-> <<>>]}

\* std::env::var(&globals["lambda"]["name"]): the variable holds a marshalled
\* descriptor, holds text that is no descriptor, or is not set.
Environments ==
    {[var |-> "set", value |-> d] : d \in Descriptors}
    \cup {[var |-> v, value |-> CHOOSE d \in Descriptors :
                                   d.datasource = "Payload" /\ d.next.kind = "Solo"] :
            v \in {"malformed", "unset"}}

\* ExecutionContext::unmarshal(&s): the descriptor, or none for text that is
\* not one.
unmarshal(e) == IF e.var = "set" THEN <<e.value>> ELSE <<>>

\* Uuid: the TaskId triple carried by a payload.
Uuid(tid, seq_num, seq_len) == [tid |-> tid, seq_num |-> seq_num, seq_len |-> seq_len]

\* The record batches of fragment i of group g: one batch of one row.
FragmentData(g, i) == << << <<g, i>> >> >>

NoEvent ==
    [uuid |-> Uuid("", 0, 0), batch |-> <<>>, present |-> FALSE, corrupt |-> FALSE,
     persons |-> 0, auctions |-> 0, bids |-> 0]

\* A payload of an upstream stage: fragment i of the k of group g.
Event(g, i, k, data, corrupt) ==
    [uuid |-> Uuid(g, i, k), batch |-> data, present |-> TRUE, corrupt |-> corrupt,
     persons |-> 0, auctions |-> 0, bids |-> 0]

\* A NexMarkEvent: the numbers of record batches its persons, auctions and
\* bids convert to.
NexMark(p, au, b, corrupt) ==
    [uuid |-> Uuid("", 0, 0), batch |-> <<>>, present |-> TRUE, corrupt |-> corrupt,
     persons |-> p, auctions |-> au, bids |-> b]

Pending == [tag |-> "Pending", value |-> ""]
Ok(v) == [tag |-> "Ok", value |-> v]
Err(m) == [tag |-> "Err", value |-> m]
Panic(m) == [tag |-> "Panic", value |-> m]

NotCompleted == "window data collection has not been completed."
EmptyPayload == "payload data is empty."
ComputeFailed == "execution failed."
NoNexmarkInput == "No Nexmark input!"
NoContext == "No execution context in the cloud environment."
UninitializedContext == "Uninitialized execution context!"
Poisoned == "Once instance has previously been poisoned"
Unimplemented == "not implemented"
DecodeFailed == "called unwrap on an Err value"
AssertFailed == "assertion failed: num_batches == 1"

NoBuilder == [tid |-> <<>>, seq_len |-> 0]

\* The locals of an activation that has not started.
IdleAct ==
    [pc |-> "pending", ready |-> FALSE, uuid |-> Uuid("", 0, 0),
     snapshot |-> NoEntry, putIndex |-> 0, input |-> <<>>, took |-> FALSE,
     executed |-> 0, output |-> <<>>, batches |-> <<>>, next_func |-> <<>>,
     builder |-> NoBuilder, frags |-> <<>>, invoked |-> FALSE,
     result |-> Pending]

Running(a) == act[a].pc \notin {"pending", "returned"}

ctx == EXECUTION_CONTEXT.ctx
arena == EXECUTION_CONTEXT.arena

\* The sub-plans: one that fails, and those that return n batches of r rows.
Plans ==
    {[fails |-> TRUE, rows |-> <<>>]}
    \cup {[fails |-> FALSE, rows |-> [j \in 1 .. n |-> r]] :
            n \in 0 .. MaxOut, r \in RowCounts}

\* ------------------------------------------------------------------ Init
\* The Arena is empty and the context Uninitialized; the platform holds the
\* fragments of up to two fan-out groups, each fragment to be delivered once.
Workloads(most) ==
    {k \in [Groups -> 0 .. MaxK] :
        /\ SumOver(k, Groups) \in 1 .. most
        /\ k["g1"] >= k["g2"]}

\* The payloads delivered to a stage fed by upstream stages: the fragments
\* of the groups, of which fragment 0 of g1 may carry no batch or may be
\* bytes that do not decode.
PayloadDeliveries(most) ==
    {[a \in Ids |->
        IF a[2] < k[a[1]]
        THEN Event(a[1], a[2], k[a[1]],
                   IF a = <<"g1", 0>> /\ flaw = "empty"
                   THEN <<>> ELSE FragmentData(a[1], a[2]),
                   a = <<"g1", 0>> /\ flaw = "corrupt")
        ELSE NoEvent] :
     k \in Workloads(most), flaw \in {"none", "empty", "corrupt"}}

\* The first event of a stage fed by the generator: nothing at all, persons
\* only, one to MaxBids batches of bids, or a value that is no NexMarkEvent.
NexMarkInputs ==
    {NexMark(0, 0, 0, FALSE), NexMark(1, 0, 0, FALSE), NexMark(0, 0, 1, TRUE)}
    \cup {NexMark(0, 0, b, FALSE) : b \in 1 .. MaxBids}

\* One or two events; the second, when there is one, is one batch of bids.
NexMarkDeliveries ==
    {[a \in Ids |->
        CASE a = <<"g1", 0>> -> first
          [] a = <<"g1", 1>> -> second
          [] OTHER -> NoEvent] :
     first \in NexMarkInputs, second \in {NoEvent, NexMark(0, 0, 1, FALSE)}}

Deliveries(e) ==
    CASE e.var = "set" /\ e.value.datasource = "NexMarkEvent" -> NexMarkDeliveries
      [] e.var = "set" /\ e.value.datasource = "Payload"
           /\ e.value.next.kind # "Chorus" -> PayloadDeliveries(MaxMsgs)
      [] OTHER -> PayloadDeliveries(MaxInputs)

\* --------------------------------------------------- the benchmark driver
LAMBDA_SYNC_CALL == "RequestResponse"
LAMBDA_ASYNC_CALL == "Event"

\* The (time, generator) pairs of the generated events.
Pairs == (0 .. MaxSeconds - 1) \X (0 .. MaxGenerators - 1)

\* A task that tokio::spawn has not been handed yet.
NoTask == [pc |-> "unspawned", t |-> 0]

\* The driver before benchmark() has passed create_lambda_function: no
\* reserved concurrency set, no task spawned, no invocation issued.
Benchmark(windowed, seconds, generators) ==
    [pc |-> "start", result |-> Pending, windowed |-> windowed,
     seconds |-> seconds, generators |-> generators,
     concurrency |-> 0, joined |-> 0,
     tasks |-> [p \in Pairs |-> NoTask],
     issued |-> [p \in Pairs |-> 0],
     invocation_type |-> [p \in Pairs |-> ""],
     response |-> [p \in Pairs |-> "none"]]

\* The driver is not run.
NoBenchmark == Benchmark(FALSE, 0, 0)

\* The configured parallelism: any usize up to the bound where it is read
\* (the external-event branch), one value elsewhere.
Parallelisms(e) ==
    IF e.var = "set" /\ e.value.datasource = "NexMarkEvent"
       /\ e.value.window = "None" /\ e.value.query_number = <<0>>
    THEN 0 .. MaxParallelism
    ELSE {MaxParallelism}

\* The invocations the platform never accepts: none, or those of sequence
\* index 0; a stage fed by external events invokes nothing.
Rejections(e) ==
    IF e.var = "set" /\ e.value.datasource = "NexMarkEvent"
    THEN {{}}
    ELSE {{}, {0}}

Init ==
    /\ env \in Environments
    /\ EXECUTION_CONTEXT = [tag |-> "Uninitialized", ctx |-> <<>>, arena |-> <<>>]
    /\ INIT = "Incomplete"
    /\ inits = 0
    /\ events \in Deliveries(env)
    /\ act = [a \in Ids |-> IdleAct]
    /\ sent = EmptyBag
    /\ fanouts = 0
    /\ rejecting \in Rejections(env)
    /\ refusals = 0
    /\ plan \in Plans
    /\ putCount = [g \in Groups |-> 0]
    /\ parallelism \in Parallelisms(env)
    /\ bench = NoBenchmark

\* ----------------------------------------------------------------- Arena
\* Arena::new(): no group is present.
ArenaNew == [g \in Groups |-> NoEntry]

\* The entry of a group after one more payload is inserted under it.
ArenaPut(entry, uuid, batch) ==
    IF entry.present
    THEN [entry EXCEPT !.batches = Append(@, batch)]
    ELSE [size |-> uuid.seq_len, batches |-> <<batch>>, present |-> TRUE]

\* The completion predicate of an entry.
ArenaReady(entry) == entry.present /\ Len(entry.batches) = entry.size

\* arena.batches(tid): the accumulated batches of a group, none when absent.
ArenaBatches(a_, tid) == IF a_[tid].present THEN a_[tid].batches ELSE <<>>

\* ------------------------------------------------------- handler, entry
\* The activation ends in a panic.
Panics(a, m) == [act EXCEPT ![a].pc = "returned", ![a].result = Panic(m)]

\* handler, entry: the platform hands the event to the handler, which
\* expands init_exec_context!.
handler(a) ==
    /\ act[a].pc = "pending"
    /\ events[a].present
    /\ act' = [act EXCEPT ![a].pc = "call_once"]
    /\ UNCHANGED <<fixed, EXECUTION_CONTEXT, sent, fanouts, refusals, putCount,
                   INIT, inits>>

\* Mutant: the closure is called on every activation, as on the IS_TESTING
\* branch, whatever the state of the Once.
call_once_every_time(a) ==
    /\ act[a].pc = "call_once"
    /\ INIT' = "Running"
    /\ act' = [act EXCEPT ![a].pc = "init_context"]
    /\ UNCHANGED <<fixed, EXECUTION_CONTEXT, sent, fanouts, refusals, putCount, inits>>

\* Mutant: a caller that finds the closure running does not wait for it.
call_once_no_wait(a) ==
    /\ act[a].pc = "call_once"
    /\ CASE INIT = "Incomplete" ->
              /\ INIT' = "Running"
              /\ act' = [act EXCEPT ![a].pc = "init_context"]
         [] INIT \in {"Running", "Complete"} ->
              /\ act' = [act EXCEPT ![a].pc = "dispatch"]
              /\ UNCHANGED INIT
         [] INIT = "Poisoned" ->
              /\ act' = Panics(a, Poisoned)
              /\ UNCHANGED INIT
    /\ UNCHANGED <<fixed, EXECUTION_CONTEXT, sent, fanouts, refusals, putCount, inits>>

\* INIT.call_once(init_context): the first caller runs the closure, a caller
\* that finds it running waits, a later caller returns at once, and a caller
\* that finds the Once poisoned by a panic of the closure panics.  IS_TESTING
\* is false outside the tests, so the closure is never called directly.
call_once(a) ==
    /\ act[a].pc = "call_once"
    /\ INIT # "Running"
    /\ CASE INIT = "Incomplete" ->
              /\ INIT' = "Running"
              /\ act' = [act EXCEPT ![a].pc = "init_context"]
         [] INIT = "Complete" ->
              /\ act' = [act EXCEPT ![a].pc = "dispatch"]
              /\ UNCHANGED INIT
         [] INIT = "Poisoned" ->
              /\ act' = Panics(a, Poisoned)
              /\ UNCHANGED INIT
    /\ UNCHANGED <<fixed, EXECUTION_CONTEXT, sent, fanouts, refusals, putCount, inits>>

\* Mutant: a variable that is not set or does not unmarshal is replaced by
\* a default descriptor instead of the panic.
init_context_defaults(a) ==
    /\ act[a].pc = "init_context"
    /\ inits' = inits + 1
    /\ EXECUTION_CONTEXT' = [tag |-> "Lambda", ctx |-> env.value, arena |-> ArenaNew]
    /\ INIT' = "Complete"
    /\ act' = [act EXCEPT ![a].pc = "dispatch"]
    /\ UNCHANGED <<fixed, sent, fanouts, refusals, putCount>>

\* Mutant: the closure completes without latching the Once.
init_context_unlatched(a) ==
    /\ act[a].pc = "init_context"
    /\ inits' = inits + 1
    /\ IF env.var = "set"
       THEN /\ EXECUTION_CONTEXT' = [tag |-> "Lambda", ctx |-> unmarshal(env)[1],
                                     arena |-> ArenaNew]
            /\ INIT' = "Incomplete"
            /\ act' = [act EXCEPT ![a].pc = "dispatch"]
       ELSE /\ INIT' = "Poisoned"
            /\ act' = Panics(a, IF env.var = "unset" THEN NoContext ELSE DecodeFailed)
            /\ UNCHANGED EXECUTION_CONTEXT
    /\ UNCHANGED <<fixed, sent, fanouts, refusals, putCount>>

\* The closure init_context: the variable is read and unmarshalled and the
\* context stored with a new Arena; it panics when the variable is not set
\* or does not unmarshal, which poisons the Once.
init_context(a) ==
    /\ act[a].pc = "init_context"
    /\ inits' = inits + 1
    /\ IF env.var = "set"
       THEN /\ EXECUTION_CONTEXT' = [tag |-> "Lambda", ctx |-> unmarshal(env)[1],
                                     arena |-> ArenaNew]
            /\ INIT' = "Complete"
            /\ act' = [act EXCEPT ![a].pc = "dispatch"]
       ELSE /\ INIT' = "Poisoned"
            /\ act' = Panics(a, IF env.var = "unset" THEN NoContext ELSE DecodeFailed)
            /\ UNCHANGED EXECUTION_CONTEXT
    /\ UNCHANGED <<fixed, sent, fanouts, refusals, putCount>>

\* match &mut EXECUTION_CONTEXT, then the match of handler on ctx.datasource.
dispatch(a) ==
    /\ act[a].pc = "dispatch"
    /\ act' = IF EXECUTION_CONTEXT.tag = "Uninitialized"
              THEN Panics(a, UninitializedContext)
              ELSE CASE ctx.datasource = "Payload" ->
                          [act EXCEPT ![a].pc = "payload_handler"]
                     [] ctx.datasource = "NexMarkEvent" ->
                          [act EXCEPT ![a].pc = "nexmark_bench_handler"]
                     [] OTHER -> Panics(a, Unimplemented)
    /\ UNCHANGED <<fixed, EXECUTION_CONTEXT, sent, fanouts, refusals, putCount,
                   INIT, inits>>

\* Mutant: the Solo arm of the match sits with Chorus.
RequiresReassembly_solo_splits(next) ==
    CASE next.kind = "None" -> TRUE
      [] next.kind = "Solo" -> FALSE
      [] next.kind = "Chorus" -> FALSE

\* The match on ctx.next that opens payload_handler.
RequiresReassembly(next) ==
    CASE next.kind = "None" -> TRUE
      [] next.kind = "Solo" -> TRUE
      [] next.kind = "Chorus" -> FALSE

\* Payload::to_batch(event), and the decoding with which arena.reassemble
\* begins: the batch and the Uuid of the payload, or none for a value that
\* does not decode.  Neither call returns a Result.
to_batch(event) ==
    IF event.corrupt THEN <<>> ELSE <<[batch |-> event.batch, uuid |-> event.uuid]>>

\* Mutant: arena.reassemble inserts the event without decoding it first.
payload_handler_admits_undecoded(a) ==
    /\ act[a].pc = "payload_handler"
    /\ IF RequiresReassembly(ctx.next)
       THEN act' = [act EXCEPT ![a].pc = "reassemble",
                               ![a].snapshot = arena[events[a].uuid.tid]]
       ELSE IF to_batch(events[a]) = <<>>
            THEN act' = Panics(a, DecodeFailed)
            ELSE act' = [act EXCEPT ![a].pc = "check",
                                    ![a].input = <<to_batch(events[a])[1].batch>>]
    /\ UNCHANGED <<fixed, EXECUTION_CONTEXT, sent, fanouts, refusals, putCount, INIT, inits>>

\* payload_handler, entry: either arena.reassemble starts (it decodes the
\* event and looks the group up through the unguarded &mut Arena), or the
\* decoded payload is the whole input; a value that does not decode ends
\* either call in a panic.
payload_handler(a) ==
    /\ act[a].pc = "payload_handler"
    /\ IF to_batch(events[a]) = <<>>
       THEN act' = Panics(a, DecodeFailed)
       ELSE IF RequiresReassembly(ctx.next)
            THEN act' = [act EXCEPT ![a].pc = "reassemble",
                                    ![a].snapshot = arena[to_batch(events[a])[1].uuid.tid]]
            ELSE act' = [act EXCEPT ![a].pc = "check",
                                    ![a].input = <<to_batch(events[a])[1].batch>>]
    /\ UNCHANGED <<fixed, EXECUTION_CONTEXT, sent, fanouts, refusals, putCount, INIT, inits>>

\* arena.reassemble(event), completion: the entry is written back and
\* (ready, uuid) returned.
reassemble(a) ==
    /\ act[a].pc = "reassemble"
    /\ LET uuid == events[a].uuid
           entry == ArenaPut(act[a].snapshot, uuid, events[a].batch)
       IN /\ EXECUTION_CONTEXT' = [EXECUTION_CONTEXT EXCEPT !.arena[uuid.tid] = entry]
          /\ putCount' = [putCount EXCEPT ![uuid.tid] = @ + 1]
          /\ act' = [act EXCEPT ![a].pc = "ready",
                                ![a].ready = ArenaReady(entry),
                                ![a].uuid = uuid,
                                ![a].snapshot = NoEntry,
                                ![a].putIndex = putCount'[uuid.tid]]
    /\ UNCHANGED <<fixed, sent, fanouts, refusals, INIT, inits>>

\* Mutant: the batches are taken whether or not the put returned ready.
batches_any(a) ==
    /\ act[a].pc = "ready"
    /\ act' = [act EXCEPT ![a].pc = "check",
                          ![a].input = ArenaBatches(arena, act[a].uuid.tid),
                          ![a].took = arena[act[a].uuid.tid].present]
    /\ EXECUTION_CONTEXT' =
         [EXECUTION_CONTEXT EXCEPT !.arena[act[a].uuid.tid] = NoEntry]
    /\ UNCHANGED <<fixed, sent, fanouts, refusals, putCount, INIT, inits>>

\* Mutant: a put that is not ready ends the activation with the
\* acknowledgment instead of the error.
batches_ack(a) ==
    /\ act[a].pc = "ready"
    /\ IF act[a].ready
       THEN /\ act' = [act EXCEPT ![a].pc = "check",
                                  ![a].input = ArenaBatches(arena, act[a].uuid.tid),
                                  ![a].took = arena[act[a].uuid.tid].present]
            /\ EXECUTION_CONTEXT' =
                 [EXECUTION_CONTEXT EXCEPT !.arena[act[a].uuid.tid] = NoEntry]
       ELSE /\ act' = [act EXCEPT ![a].pc = "returned",
                                  ![a].result = Ok(ctx.name)]
            /\ UNCHANGED EXECUTION_CONTEXT
    /\ UNCHANGED <<fixed, sent, fanouts, refusals, putCount, INIT, inits>>

\* if ready { arena.batches(uuid.tid) } else { return Err(..) }
batches(a) ==
    /\ act[a].pc = "ready"
    /\ IF act[a].ready
       THEN /\ act' = [act EXCEPT ![a].pc = "check",
                                  ![a].input = ArenaBatches(arena, act[a].uuid.tid),
                                  ![a].took = arena[act[a].uuid.tid].present]
            /\ EXECUTION_CONTEXT' =
                 [EXECUTION_CONTEXT EXCEPT !.arena[act[a].uuid.tid] = NoEntry]
       ELSE /\ act' = [act EXCEPT ![a].pc = "returned",
                                  ![a].result = Err(NotCompleted)]
            /\ UNCHANGED EXECUTION_CONTEXT
    /\ UNCHANGED <<fixed, sent, fanouts, refusals, putCount, INIT, inits>>

\* input_partitions.is_empty() || input_partitions[0].is_empty()
IsEmptyInput(input) == input = <<>> \/ input[1] = <<>>

\* The emptiness check, then ctx.feed_one_source(&input_partitions).
ctx_feed_one_source(a) ==
    /\ act[a].pc = "check"
    /\ IF IsEmptyInput(act[a].input)
       THEN /\ act' = [act EXCEPT ![a].pc = "returned",
                                  ![a].result = Err(EmptyPayload)]
            /\ UNCHANGED EXECUTION_CONTEXT
       ELSE /\ act' = [act EXCEPT ![a].pc = "execute"]
            /\ EXECUTION_CONTEXT' =
                 [EXECUTION_CONTEXT EXCEPT !.ctx.source = act[a].input]
    /\ UNCHANGED <<fixed, sent, fanouts, refusals, putCount, INIT, inits>>

\* ---------------------------------------------------------- local compute
\* The record batches the sub-plan returns for the source it was fed: batch
\* j has rows[j] rows, each row naming the fed source it was computed from.
Execute(source, rows) ==
    [j \in 1 .. Len(rows) |->
        [n \in 1 .. rows[j] |-> [of |-> source, b |-> j, r |-> n]]]

\* Mutant: the error of execute is dropped and the activation goes on with
\* no output.
execute_drops_error(a) ==
    /\ act[a].pc = "execute"
    /\ act' = [act EXCEPT ![a].pc = "sink",
                          ![a].executed = @ + 1,
                          ![a].output = IF plan.fails THEN <<>>
                                        ELSE Execute(ctx.source, plan.rows)]
    /\ UNCHANGED <<fixed, EXECUTION_CONTEXT, sent, fanouts, refusals, putCount, INIT, inits>>

\* Mutant: the sub-plan is run once for every input batch.
execute_per_batch(a) ==
    /\ act[a].pc = "execute"
    /\ IF plan.fails
       THEN act' = [act EXCEPT ![a].pc = "returned",
                               ![a].executed = @ + 1,
                               ![a].result = Err(ComputeFailed)]
       ELSE act' = [act EXCEPT ![a].pc = "sink",
                               ![a].executed = @ + Len(act[a].input),
                               ![a].output = Execute(ctx.source, plan.rows)]
    /\ UNCHANGED <<fixed, EXECUTION_CONTEXT, sent, fanouts, refusals, putCount, INIT, inits>>

\* ctx.execute().await?
execute(a) ==
    /\ act[a].pc = "execute"
    /\ IF plan.fails
       THEN act' = [act EXCEPT ![a].pc = "returned",
                               ![a].executed = @ + 1,
                               ![a].result = Err(ComputeFailed)]
       ELSE act' = [act EXCEPT ![a].pc = "sink",
                               ![a].executed = @ + 1,
                               ![a].output = Execute(ctx.source, plan.rows)]
    /\ UNCHANGED <<fixed, EXECUTION_CONTEXT, sent, fanouts, refusals, putCount, INIT, inits>>

\* LambdaExecutor::coalesce_batches: batches are concatenated, in order,
\* until target rows are buffered; what is left at the end is emitted too.
RECURSIVE CoalesceFrom(_, _, _)
CoalesceFrom(bs, buf, target) ==
    IF bs = <<>>
    THEN IF buf = <<>> THEN <<>> ELSE <<buf>>
    ELSE LET nb == buf \o Head(bs)
         IN IF Len(nb) >= target
            THEN <<nb>> \o CoalesceFrom(Tail(bs), <<>>, target)
            ELSE CoalesceFrom(Tail(bs), nb, target)

coalesce_batches(partitions, target) ==
    [p \in 1 .. Len(partitions) |-> CoalesceFrom(partitions[p], <<>>, target)]

\* The members of the downstream group, or the one downstream function.
NextTargets(next) ==
    CASE next.kind = "None" -> {}
      [] next.kind = "Solo" -> {<<next.name, 0>>}
      [] next.kind = "Chorus" -> {<<next.name, i>> : i \in 0 .. next.num - 1}

\* LambdaExecutor::next_function(&ctx): the names it may return, of which
\* invoke_next_functions puts one in every request of the fan-out.
next_function(c) == NextTargets(c.next)

\* UuidBuilder::new(&ctx.name, batches.len()), the n-th builder built.
UuidBuilderNew(name, len, n) == [tid |-> <<name, n>>, seq_len |-> len]

\* uuid_builder.get(i)
UuidBuilderGet(builder, i) == Uuid(builder.tid, i, builder.seq_len)

\* A fragment's loop before its first attempt.
FreshLoop == [attempts |-> 0, rejected |-> 0, done |-> FALSE]

\* Mutant: the test of ctx.next is left out, and a stage with no next
\* function gets the error of next_function.
sink_unguarded(a) ==
    /\ act[a].pc = "sink"
    /\ IF next_function(ctx) # {}
       THEN LET out == coalesce_batches(<<act[a].output>>, payload_batch_size)[1]
            IN /\ \E f \in next_function(ctx) :
                    act' = [act EXCEPT
                              ![a].pc = "invoke",
                              ![a].output = <<>>,
                              ![a].batches = out,
                              ![a].next_func = f,
                              ![a].builder = UuidBuilderNew(ctx.name, Len(out), fanouts),
                              ![a].frags = [i \in 0 .. Len(out) - 1 |-> FreshLoop]]
               /\ fanouts' = fanouts + 1
       ELSE /\ act' = [act EXCEPT ![a].pc = "returned",
                                  ![a].output = <<>>,
                                  ![a].result = Err("no next function")]
            /\ UNCHANGED fanouts
    /\ UNCHANGED <<fixed, EXECUTION_CONTEXT, sent, refusals, putCount, INIT, inits>>

\* Mutant: the builder of the first fan-out is used for every fan-out.
sink_shares_builder(a) ==
    /\ act[a].pc = "sink"
    /\ IF ctx.next.kind # "None"
       THEN LET out == coalesce_batches(<<act[a].output>>, payload_batch_size)[1]
            IN /\ \E f \in next_function(ctx) :
                    act' = [act EXCEPT
                              ![a].pc = "invoke",
                              ![a].output = <<>>,
                              ![a].batches = out,
                              ![a].next_func = f,
                              ![a].builder = UuidBuilderNew(ctx.name, Len(out), 0),
                              ![a].frags = [i \in 0 .. Len(out) - 1 |-> FreshLoop]]
               /\ fanouts' = fanouts + 1
       ELSE /\ act' = [act EXCEPT ![a].pc = "returned",
                                  ![a].output = <<>>,
                                  ![a].result = Ok(ctx.name)]
            /\ UNCHANGED fanouts
    /\ UNCHANGED <<fixed, EXECUTION_CONTEXT, sent, refusals, putCount, INIT, inits>>

\* Mutant: the output is handed to invoke_next_functions without coalesce.
sink_uncoalesced(a) ==
    /\ act[a].pc = "sink"
    /\ IF ctx.next.kind # "None"
       THEN LET out == act[a].output
            IN /\ \E f \in next_function(ctx) :
                    act' = [act EXCEPT
                              ![a].pc = "invoke",
                              ![a].output = <<>>,
                              ![a].batches = out,
                              ![a].next_func = f,
                              ![a].builder = UuidBuilderNew(ctx.name, Len(out), fanouts),
                              ![a].frags = [i \in 0 .. Len(out) - 1 |-> FreshLoop]]
               /\ fanouts' = fanouts + 1
       ELSE /\ act' = [act EXCEPT ![a].pc = "returned",
                                  ![a].output = <<>>,
                                  ![a].result = Ok(ctx.name)]
            /\ UNCHANGED fanouts
    /\ UNCHANGED <<fixed, EXECUTION_CONTEXT, sent, refusals, putCount, INIT, inits>>

\* if ctx.next != CloudFunction::None { coalesce; invoke_next_functions up
\* to the start of the parallel loops } else the acknowledgment.
sink(a) ==
    /\ act[a].pc = "sink"
    /\ IF ctx.next.kind # "None"
       THEN LET out == coalesce_batches(<<act[a].output>>, payload_batch_size)[1]
            IN /\ \E f \in next_function(ctx) :
                    act' = [act EXCEPT
                              ![a].pc = "invoke",
                              ![a].output = <<>>,
                              ![a].batches = out,
                              ![a].next_func = f,
                              ![a].builder = UuidBuilderNew(ctx.name, Len(out), fanouts),
                              ![a].frags = [i \in 0 .. Len(out) - 1 |-> FreshLoop]]
               /\ fanouts' = fanouts + 1
       ELSE /\ act' = [act EXCEPT ![a].pc = "returned",
                                  ![a].output = <<>>,
                                  ![a].result = Ok(ctx.name)]
            /\ UNCHANGED fanouts
    /\ UNCHANGED <<fixed, EXECUTION_CONTEXT, sent, refusals, putCount, INIT, inits>>

\* ------------------------------------------------------------- invocation
\* The answers of client.invoke_async: a call error, or a response whose
\* status is absent (<<>>) or present (<<code>>); 500 stands for every code
\* other than 202.
Queued == [ok |-> TRUE, status |-> <<Accepted202>>]
Refusals ==
    {[ok |-> FALSE, status |-> <<>>],
     [ok |-> TRUE, status |-> <<>>],
     [ok |-> TRUE, status |-> <<500>>]}

\* Mutant: any status ends the loop, the comparison with 202 left out.
Accepted_any_status(resp) ==
    /\ resp.ok
    /\ resp.status # <<>>

\* The test that ends a fragment's loop: Ok(response), Some(code), 202.
Accepted(resp) ==
    /\ resp.ok
    /\ resp.status # <<>>
    /\ resp.status[1] = Accepted202

\* Mutant: the target is picked per fragment, round-robin over the group.
Request_round_robin(l, i) ==
    [function_name |-> <<l.next_func[1], i % ctx.next.num>>,
     uuid |-> UuidBuilderGet(l.builder, i),
     batch |-> l.batches[i + 1]]

\* Mutant: a retry asks the builder for the index after the one it used.
Request_index_drifts(l, i) ==
    [function_name |-> l.next_func,
     uuid |-> UuidBuilderGet(l.builder, i + l.frags[i].attempts),
     batch |-> l.batches[i + 1]]

\* The request of fragment i: built anew on every turn of its loop.
Request(l, i) ==
    [function_name |-> l.next_func,
     uuid |-> UuidBuilderGet(l.builder, i),
     batch |-> l.batches[i + 1]]

\* The answers the platform may give to the next attempt of fragment i.
Answers(i) ==
    (IF i \in rejecting THEN {} ELSE {Queued})
    \cup (IF i \in rejecting \/ refusals < MaxRejects THEN Refusals ELSE {})

\* One turn of the loop of fragment i: the request is sent; the platform
\* queues it exactly when it answers 202.
invoke_async(a, i) ==
    /\ act[a].pc = "invoke"
    /\ i \in DOMAIN act[a].frags
    /\ ~act[a].frags[i].done
    /\ \E resp \in Answers(i) :
         /\ sent' = IF resp = Queued
                    THEN sent (+) SetToBag({Request(act[a], i)})
                    ELSE sent
         /\ refusals' = IF resp = Queued \/ i \in rejecting
                        THEN refusals ELSE refusals + 1
         /\ act' = [act EXCEPT
                      ![a].frags[i] =
                         [attempts |-> Min(@.attempts + 1, MaxRejects + 1),
                          rejected |-> IF resp = Queued THEN @.rejected
                                       ELSE Min(@.rejected + 1, MaxRejects + 1),
                          done |-> Accepted(resp)]]
    /\ UNCHANGED <<fixed, EXECUTION_CONTEXT, fanouts, putCount, INIT, inits>>

\* Mutant: the acknowledgment does not wait for the loops to end.
acknowledge_early(a) ==
    /\ act[a].pc = "invoke"
    /\ act' = [act EXCEPT ![a].pc = "returned",
                          ![a].invoked = TRUE,
                          ![a].batches = <<>>,
                          ![a].next_func = <<>>,
                          ![a].frags = <<>>,
                          ![a].result = Ok(ctx.name)]
    /\ UNCHANGED <<fixed, EXECUTION_CONTEXT, sent, fanouts, refusals, putCount, INIT, inits>>

\* for_each has joined every loop: Ok(()), then the acknowledgment.
acknowledge(a) ==
    /\ act[a].pc = "invoke"
    /\ \A i \in DOMAIN act[a].frags : act[a].frags[i].done
    /\ act' = [act EXCEPT ![a].pc = "returned",
                          ![a].invoked = TRUE,
                          ![a].batches = <<>>,
                          ![a].next_func = <<>>,
                          ![a].frags = <<>>,
                          ![a].result = Ok(ctx.name)]
    /\ UNCHANGED <<fixed, EXECUTION_CONTEXT, sent, fanouts, refusals, putCount, INIT, inits>>

\* ------------------------------------------------------- external events
\* nexmark_bench_handler: the match on source.window.
nexmark_bench_handler(a) ==
    /\ act[a].pc = "nexmark_bench_handler"
    /\ act' = IF ctx.window = "None"
              THEN [act EXCEPT ![a].pc = "collect"]
              ELSE Panics(a, Unimplemented)
    /\ UNCHANGED <<fixed, EXECUTION_CONTEXT, sent, fanouts, refusals, putCount, INIT, inits>>

\* NexMarkSource::to_batch: n record batches of one row each.
NexMarkBatches(a, kind, n) == [j \in 1 .. n |-> << <<a, kind, j>> >>]

\* collect, up to the call of feed_one_source: the event is deserialized
\* (unwrap), its three kinds converted, the all-empty event refused, and the
\* query number matched.
collect(a) ==
    /\ act[a].pc = "collect"
    /\ LET event == events[a]
           person_batches == NexMarkBatches(a, "person", event.persons)
           auction_batches == NexMarkBatches(a, "auction", event.auctions)
           bid_batches == NexMarkBatches(a, "bid", event.bids)
       IN act' =
            CASE event.corrupt -> Panics(a, DecodeFailed)
              [] ~event.corrupt /\ person_batches = <<>> /\ auction_batches = <<>>
                   /\ bid_batches = <<>> ->
                   [act EXCEPT ![a].pc = "returned", ![a].result = Err(NoNexmarkInput)]
              [] OTHER ->
                   IF ctx.query_number = <<0>>
                   THEN [act EXCEPT ![a].pc = "feed_one_source", ![a].input = bid_batches]
                   ELSE Panics(a, Unimplemented)
    /\ UNCHANGED <<fixed, EXECUTION_CONTEXT, sent, fanouts, refusals, putCount, INIT, inits>>

\* LambdaExecutor::repartition(vec![batches], RoundRobinBatch(n)): batch j
\* goes to partition j modulo n, the order within a partition kept.
RECURSIVE Pick(_, _, _, _)
Pick(bs, j, p, n) ==
    IF j > Len(bs) THEN <<>>
    ELSE (IF (j - 1) % n = p THEN <<bs[j]>> ELSE <<>>) \o Pick(bs, j + 1, p, n)

repartition(bs, n) == [p \in 1 .. n |-> Pick(bs, 1, p - 1, n)]

\* feed_one_source(ctx, batches)
feed_one_source(a) ==
    /\ act[a].pc = "feed_one_source"
    /\ LET batches_ == act[a].input
           num_batches == Len(batches_)
       IN IF num_batches > parallelism
          THEN /\ EXECUTION_CONTEXT' =
                    [EXECUTION_CONTEXT EXCEPT !.ctx.source = repartition(batches_, parallelism)]
               /\ act' = [act EXCEPT ![a].pc = "collect_execute"]
          ELSE IF num_batches > 1
          THEN /\ EXECUTION_CONTEXT' =
                    [EXECUTION_CONTEXT EXCEPT !.ctx.source = repartition(batches_, num_batches)]
               /\ act' = [act EXCEPT ![a].pc = "collect_execute"]
          ELSE IF num_batches = 1
          THEN /\ EXECUTION_CONTEXT' = [EXECUTION_CONTEXT EXCEPT !.ctx.source = <<batches_>>]
               /\ act' = [act EXCEPT ![a].pc = "collect_execute"]
          ELSE /\ act' = Panics(a, AssertFailed)
               /\ UNCHANGED EXECUTION_CONTEXT
    /\ UNCHANGED <<fixed, sent, fanouts, refusals, putCount, INIT, inits>>

\* Mutant: nexmark_bench_handler returns the text that collect printed.
collect_execute_returns_output(a) ==
    /\ act[a].pc = "collect_execute"
    /\ IF plan.fails
       THEN act' = [act EXCEPT ![a].pc = "returned",
                               ![a].executed = @ + 1,
                               ![a].result = Err(ComputeFailed)]
       ELSE act' = [act EXCEPT ![a].pc = "returned",
                               ![a].executed = @ + 1,
                               ![a].result = Ok("formatted")]
    /\ UNCHANGED <<fixed, EXECUTION_CONTEXT, sent, fanouts, refusals, putCount, INIT, inits>>

\* Mutant: the output of collect is handed downstream as payload_handler
\* hands its own.
collect_execute_fans_out(a) ==
    /\ act[a].pc = "collect_execute"
    /\ IF plan.fails
       THEN act' = [act EXCEPT ![a].pc = "returned",
                               ![a].executed = @ + 1,
                               ![a].result = Err(ComputeFailed)]
       ELSE act' = [act EXCEPT ![a].pc = "sink",
                               ![a].executed = @ + 1,
                               ![a].output = Execute(ctx.source, plan.rows)]
    /\ UNCHANGED <<fixed, EXECUTION_CONTEXT, sent, fanouts, refusals, putCount, INIT, inits>>

\* collect, from ctx.execute().await? on, and the return of
\* nexmark_bench_handler: the output is printed and the name acknowledged.
collect_execute(a) ==
    /\ act[a].pc = "collect_execute"
    /\ IF plan.fails
       THEN act' = [act EXCEPT ![a].pc = "returned",
                               ![a].executed = @ + 1,
                               ![a].result = Err(ComputeFailed)]
       ELSE act' = [act EXCEPT ![a].pc = "returned",
                               ![a].executed = @ + 1,
                               ![a].result = Ok(ctx.name)]
    /\ UNCHANGED <<fixed, EXECUTION_CONTEXT, sent, fanouts, refusals, putCount, INIT, inits>>

\* --------------------------------------------------------- specifications
Step(a) ==
    \/ call_once(a)
    \/ init_context(a)
    \/ dispatch(a)
    \/ nexmark_bench_handler(a)
    \/ collect(a)
    \/ feed_one_source(a)
    \/ collect_execute(a)
    \/ payload_handler(a)
    \/ reassemble(a)
    \/ batches(a)
    \/ ctx_feed_one_source(a)
    \/ execute(a)
    \/ sink(a)
    \/ \E i \in 0 .. MaxOut - 1 : invoke_async(a, i)
    \/ acknowledge(a)

\* lambda_runtime::run hands the handler one event at a time.
run(a) ==
    /\ \A b \in Ids : ~Running(b)
    /\ handler(a)

Next == \E a \in Ids : run(a) \/ Step(a)

Spec == Init /\ [][Next]_vars

\* The loops of invoke_next_functions run on the threads of the rayon pool
\* and the handler on the tokio runtime: a step that stays possible is taken.
FairSpec == Spec /\ WF_vars(Next)

\* A host that starts an activation while others are in flight, as the
\* unguarded static mut EXECUTION_CONTEXT lets it.
spawn(a) ==
    /\ Cardinality({b \in Ids : Running(b)}) < MaxConcurrent
    /\ handler(a)

\* ---------------------------------------------------------- bench/nexmark
ConcurrencyFailed == "put_function_concurrency failed"
InvocationFailed == "Lambda function execution failure"

\* Everything of the function's warm instance, which the driver does not touch.
instance == <<env, EXECUTION_CONTEXT, events, act, sent, fanouts, rejecting, refusals,
              plan, putCount, INIT, inits, parallelism>>

\* The tasks of the driver: one for every (time, generator) pair when the
\* source has no window, one for every generator when it has.
TaskIds(b) ==
    {p \in Pairs : /\ p[2] < b.generators
                   /\ IF b.windowed THEN p[1] = 0 ELSE p[1] < b.seconds}

\* The i-th task of the vector tasks, from 0: iproduct!(0..seconds,
\* 0..generators) in the one mode, 0..generators in the other.
TaskAt(b, i) ==
    IF b.windowed THEN <<0, i>> ELSE <<i \div b.generators, i % b.generators>>

\* set_lambda_concurrency(func_arn, 1).await?
set_lambda_concurrency ==
    /\ bench.pc = "start"
    /\ bench.windowed
    /\ \/ bench' = [bench EXCEPT !.concurrency = 1, !.pc = "spawn"]
       \/ bench' = [bench EXCEPT !.pc = "returned", !.result = Err(ConcurrencyFailed)]
    /\ UNCHANGED instance

\* The map over the pairs or over the generators: every task is handed to
\* tokio::spawn, and the vector collected.
spawn_tasks ==
    /\ \/ bench.pc = "start" /\ ~bench.windowed
       \/ bench.pc = "spawn"
    /\ bench' = [bench EXCEPT !.pc = "join",
                              !.tasks = [p \in Pairs |->
                                           IF p \in TaskIds(bench)
                                           THEN [pc |-> "send", t |-> p[1]]
                                           ELSE NoTask]]
    /\ UNCHANGED instance

\* invoke_lambda_function, up to LAMBDA_CLIENT.invoke(request): the task
\* sends the event of its time and generator, synchronously without a window
\* and asynchronously with one.
invoke_lambda_function(p) ==
    /\ bench.pc = "join"
    /\ bench.tasks[p].pc = "send"
    /\ LET e == <<bench.tasks[p].t, p[2]>>
       IN bench' = [bench EXCEPT !.tasks[p].pc = "await",
                                 !.issued[e] = @ + 1,
                                 !.invocation_type[e] =
                                     IF bench.windowed THEN LAMBDA_ASYNC_CALL
                                     ELSE LAMBDA_SYNC_CALL]
    /\ UNCHANGED instance

\* Mutant: the loop over the seconds goes on after a failed invocation.
invoke_returns_unchecked(p, ok) ==
    /\ bench.pc = "join"
    /\ bench.tasks[p].pc = "await"
    /\ LET t == bench.tasks[p].t
           e == <<t, p[2]>>
       IN bench' = [bench EXCEPT
             !.response[e] = IF ok THEN "ok" ELSE "err",
             !.tasks[p] = IF bench.windowed /\ t + 1 < bench.seconds
                          THEN [pc |-> "send", t |-> t + 1]
                          ELSE [pc |-> IF ok THEN "ok" ELSE "err", t |-> t]]
    /\ UNCHANGED instance

\* The answer of LAMBDA_CLIENT.invoke and the `?` on it: on Ok the task of a
\* pair ends and the task of a generator goes to the next second or ends;
\* on Err the task ends with the error.
invoke_returns(p, ok) ==
    /\ bench.pc = "join"
    /\ bench.tasks[p].pc = "await"
    /\ LET t == bench.tasks[p].t
           e == <<t, p[2]>>
       IN bench' = [bench EXCEPT
             !.response[e] = IF ok THEN "ok" ELSE "err",
             !.tasks[p] = IF ok /\ bench.windowed /\ t + 1 < bench.seconds
                          THEN [pc |-> "send", t |-> t + 1]
                          ELSE [pc |-> IF ok THEN "ok" ELSE "err", t |-> t]]
    /\ UNCHANGED instance

\* for task in tasks { task.await.expect(..)?; }: the tasks are joined in
\* the order of the vector; the first that ended with an error ends
\* benchmark, and main with it.
join ==
    /\ bench.pc = "join"
    /\ IF bench.joined = Cardinality(TaskIds(bench))
       THEN bench' = [bench EXCEPT !.pc = "returned", !.result = Ok("")]
       ELSE LET task == bench.tasks[TaskAt(bench, bench.joined)]
            IN /\ task.pc \in {"ok", "err"}
               /\ bench' = IF task.pc = "ok"
                           THEN [bench EXCEPT !.joined = @ + 1]
                           ELSE [bench EXCEPT !.pc = "returned",
                                              !.result = Err(InvocationFailed)]
    /\ UNCHANGED instance

\* The driver starts with the function created and the events generated;
\* the function's instance is left out of its run.
BenchInit ==
    /\ bench \in {Benchmark(w, sec, g) :
                    w \in BOOLEAN, sec \in 1 .. MaxSeconds, g \in 1 .. MaxGenerators}
    /\ env = [var |-> "set",
              value |-> [name |-> StageName, next |-> [kind |-> "None", name |-> "", num |-> 0],
                         datasource |-> "NexMarkEvent", window |-> "None",
                         query_number |-> <<0>>, source |-> <<>>]]
    /\ EXECUTION_CONTEXT = [tag |-> "Uninitialized", ctx |-> <<>>, arena |-> <<>>]
    /\ INIT = "Incomplete"
    /\ inits = 0
    /\ events = [a \in Ids |-> NoEvent]
    /\ act = [a \in Ids |-> IdleAct]
    /\ sent = EmptyBag
    /\ fanouts = 0
    /\ rejecting = {}
    /\ refusals = 0
    /\ plan = [fails |-> FALSE, rows |-> <<>>]
    /\ putCount = [g \in Groups |-> 0]
    /\ parallelism = MaxParallelism

BenchNext ==
    \/ set_lambda_concurrency
    \/ spawn_tasks
    \/ \E p \in Pairs : invoke_lambda_function(p)
    \/ \E p \in Pairs, ok \in BOOLEAN : invoke_returns(p, ok)
    \/ join

BenchSpec == BenchInit /\ [][BenchNext]_vars

ConcurrentNext == \E a \in Ids : spawn(a) \/ Step(a)

ConcurrentSpec == Init /\ [][ConcurrentNext]_vars

\* The cold start under such a host: the first activations enter the handler
\* together and are followed through init_exec_context! up to the dispatch.
ColdStartNext ==
    \E a \in Ids : spawn(a) \/ call_once(a) \/ init_context(a) \/ dispatch(a)

ColdStartSpec == Init /\ [][ColdStartNext]_vars

\* At-least-once delivery to a reassembling stage: the platform holds the k
\* fragments of group g1 and a second copy of one of them, and may hold a
\* one-fragment group g2.
RedeliveryDeliveries ==
    {[a \in Ids |->
        CASE a[1] = "g1" /\ a[2] < k -> Event("g1", a[2], k, FragmentData("g1", a[2]), FALSE)
          [] a[1] = "g1" /\ a[2] = k -> Event("g1", d, k, FragmentData("g1", d), FALSE)
          [] a = <<"g2", 0>> /\ other -> Event("g2", 0, 1, FragmentData("g2", 0), FALSE)
          [] OTHER -> NoEvent] :
     k \in 1 .. MaxK - 1, d \in 0 .. MaxK - 2, other \in BOOLEAN}

RedeliveryInit ==
    /\ env \in {e \in Environments :
                  /\ e.var = "set"
                  /\ e.value.datasource = "Payload"
                  /\ e.value.next.kind # "Chorus"}
    /\ EXECUTION_CONTEXT = [tag |-> "Uninitialized", ctx |-> <<>>, arena |-> <<>>]
    /\ INIT = "Incomplete"
    /\ inits = 0
    /\ events \in {e \in RedeliveryDeliveries :
                     \A a \in Ids : e[a].present => e[a].uuid.seq_num < e[a].uuid.seq_len}
    /\ act = [a \in Ids |-> IdleAct]
    /\ sent = EmptyBag
    /\ fanouts = 0
    /\ rejecting \in {{}, {0}}
    /\ refusals = 0
    /\ plan \in Plans
    /\ putCount = [g \in Groups |-> 0]
    /\ parallelism \in Parallelisms(env)
    /\ bench = NoBenchmark

RedeliveryNext ==
    \E a \in Ids :
        \/ run(a)
        \/ call_once(a)
        \/ init_context(a)
        \/ dispatch(a)
        \/ payload_handler(a)
        \/ reassemble(a)
        \/ batches(a)
        \/ ctx_feed_one_source(a)
        \/ execute(a)
        \/ sink(a)
        \/ \E i \in 0 .. MaxOut - 1 : invoke_async(a, i)
        \/ acknowledge(a)

RedeliverySpec == RedeliveryInit /\ [][RedeliveryNext]_vars

\* ------------------------------------------------------------------ claims
Initialized == EXECUTION_CONTEXT.tag = "Lambda"

\* The stage is fed by upstream payloads.
PayloadStage == Initialized /\ ctx.datasource = "Payload"

\* The activation is past the first statement of payload_handler with a
\* payload that decoded.
PastEntry(a) ==
    /\ act[a].pc \notin {"pending", "call_once", "init_context", "dispatch",
                          "payload_handler"}
    /\ to_batch(events[a]) # <<>>

\* The activations that carry the fragments of group g.
FragmentsOf(g) == {a \in Ids : events[a].present /\ events[a].uuid.tid = g}

\* The activation has returned from arena.reassemble.
HasPut(a) == act[a].putIndex > 0

\* The activation is past the branch on ready.
PastReady(a) == HasPut(a) /\ act[a].pc # "ready"

\* The target names and the payloads of the accepted invocations of group t.
SentOf(t) == {r \in BagToSet(sent) : r.uuid.tid = t}

\* The coalesced output of an activation: what it hands to invoke_next_functions.
Coalesced(a) ==
    coalesce_batches(<<Execute(act[a].input, plan.rows)>>, payload_batch_size)[1]

\* C1: on a warm instance that runs its activations one at a time, the put
\* of the j-th fragment of a group to arrive returns ready exactly when j is
\* the group's total_fragments k, whatever the arrival order, and the take
\* that follows hands over the k batches of that group and nothing else;
\* no other put is followed by a take.
C1_ReadyOnKthPut ==
    \A a \in Ids :
        HasPut(a) =>
            /\ act[a].ready = (act[a].putIndex = events[a].uuid.seq_len)
            /\ act[a].took => act[a].ready
            /\ (PastReady(a) /\ act[a].ready) =>
                  /\ act[a].took
                  /\ Len(act[a].input) = events[a].uuid.seq_len
                  /\ Range(act[a].input) =
                        {events[b].batch : b \in FragmentsOf(events[a].uuid.tid)}

\* A group of at least two fragments was completed by a fragment that is not
\* its last in sequence order, and its batches were taken.
C1_Witness ==
    \E a \in Ids :
        /\ act[a].took
        /\ events[a].uuid.seq_len >= 2
        /\ events[a].uuid.seq_num + 1 < events[a].uuid.seq_len
        /\ Len(act[a].input) = events[a].uuid.seq_len

C3_EntryBoundedDrainedOnce ==
    Initialized =>
        \A g \in Groups :
            /\ arena[g].present => Len(arena[g].batches) <= arena[g].size
            /\ ArenaReady(arena[g]) <=>
                  \E a \in FragmentsOf(g) : act[a].pc = "ready" /\ act[a].ready
            /\ Cardinality({a \in FragmentsOf(g) : act[a].took}) <= 1
            /\ (\E a \in FragmentsOf(g) : act[a].took) => ~arena[g].present
            /\ (FragmentsOf(g) # {} /\ \A a \in FragmentsOf(g) : PastReady(a)) =>
                  Cardinality({a \in FragmentsOf(g) : act[a].took}) = 1

\* Every fragment of a group of three has been handled: one activation took
\* the batches, the others did not, and the group is gone from the Arena.
C3_Witness ==
    /\ Initialized
    /\ \E g \in Groups :
         /\ Cardinality(FragmentsOf(g)) >= 3
         /\ \A a \in FragmentsOf(g) : act[a].pc = "returned"
         /\ Cardinality({a \in FragmentsOf(g) : act[a].took}) = 1
         /\ ~arena[g].present

\* C4: whether a payload activation reassembles is decided by ctx.next alone:
\* routed None or Solo, every activation past the entry of payload_handler
\* (with a payload that decodes) is inside arena.reassemble or has put its
\* payload; routed Chorus, none ever puts, the Arena stays empty and the
\* input is the one decoded payload.
C4_RoutingDecidesReassembly ==
    PayloadStage =>
        \A a \in Ids :
            PastEntry(a) =>
                IF ctx.next.kind \in {"None", "Solo"}
                THEN act[a].pc = "reassemble" \/ HasPut(a)
                ELSE /\ ~HasPut(a)
                     /\ act[a].pc # "reassemble"
                     /\ act[a].input = <<events[a].batch>>
                     /\ arena = ArenaNew

\* A Chorus-routed stage has executed on one fragment of a group of two
\* without reassembling it.
C4_Witness ==
    /\ Initialized
    /\ ctx.next.kind = "Chorus"
    /\ \E a \in Ids :
         /\ events[a].uuid.seq_len = 2
         /\ act[a].executed = 1
         /\ act[a].input = <<events[a].batch>>

\* C5: in a reassembling stage an activation whose put returned ready =
\* false has returned the not-completed error, with no execute, no fan-out
\* and no acknowledgment; whoever executes has observed ready = true.
C5_NotReadyEndsInError ==
    PayloadStage =>
        \A a \in Ids :
            /\ (PastReady(a) /\ ~act[a].ready) =>
                  /\ act[a].pc = "returned"
                  /\ act[a].result = Err(NotCompleted)
                  /\ act[a].executed = 0
                  /\ ~act[a].invoked
                  /\ act[a].builder = NoBuilder
            /\ (RequiresReassembly(ctx.next) /\ act[a].pc \in {"execute", "sink", "invoke"}) =>
                  act[a].ready
            /\ (RequiresReassembly(ctx.next) /\ act[a].executed > 0) => act[a].ready

\* One fragment of a group of two has ended with the not-completed error and
\* the other one has executed the sub-plan.
C5_Witness ==
    \E a, b \in Ids :
        /\ events[a].uuid.tid = events[b].uuid.tid
        /\ act[a].result = Err(NotCompleted)
        /\ act[b].ready
        /\ act[b].executed = 1

\* The accepted invocations that carry TaskId u.
AcceptedAs(u) == {r \in BagToSet(sent) : r.uuid = u}

\* Fragment i of the fan-out of builder b was accepted once and only once.
AcceptedOnce(b, i) ==
    /\ Cardinality(AcceptedAs(UuidBuilderGet(b, i))) = 1
    /\ \A r \in AcceptedAs(UuidBuilderGet(b, i)) : CopiesIn(r, sent) = 1

InFlight(a) == act[a].pc = "invoke"

\* The state half of C6: a loop that has ended made one attempt more than
\* it met refusals and its request is queued once; a loop that has not
\* ended has met a refusal at every attempt and nothing of it is queued.
C6_Counts ==
    \A a \in Ids :
        InFlight(a) =>
            \A i \in DOMAIN act[a].frags :
                LET f == act[a].frags[i]
                    copies == CopiesIn(Request(act[a], i), sent)
                IN IF f.done
                   THEN f.attempts = f.rejected + 1 /\ copies = 1 /\ AcceptedOnce(act[a].builder, i)
                   ELSE f.attempts = f.rejected /\ copies = 0
                        /\ AcceptedAs(UuidBuilderGet(act[a].builder, i)) = {}

\* The step half of C6: while the loops run, the request of a fragment
\* (target, TaskId, batch) is the same at every attempt.
C6_SameRequest ==
    \A a \in Ids :
        (InFlight(a) /\ act'[a].pc = "invoke") =>
            \A i \in DOMAIN act[a].frags :
                Request(act'[a], i) = Request(act[a], i)

\* C6: invoke_next_functions repeats the identical invocation of a fragment
\* after every answer that is not a 202 and stops at the first 202: a
\* fragment refused twice is attempted three times, and every fragment is
\* queued once, none lost and none twice.
C6_RetryUntilAccepted == []C6_Counts /\ [][C6_SameRequest]_vars

\* A fragment was refused twice and accepted at its third attempt.
C6_Witness ==
    \E a \in Ids :
        /\ InFlight(a)
        /\ \E i \in DOMAIN act[a].frags :
             /\ act[a].frags[i].done
             /\ act[a].frags[i].rejected = 2
             /\ act[a].frags[i].attempts = 3
             /\ CopiesIn(Request(act[a], i), sent) = 1

\* The loops of the activation include one the platform never accepts.
Stuck(a) == InFlight(a) /\ (DOMAIN act[a].frags \cap rejecting) # {}

\* The loops of the activation are all of invocations the platform accepts
\* after finitely many refusals.
CanFinish(a) == InFlight(a) /\ (DOMAIN act[a].frags \cap rejecting) = {}

Acknowledged(a) ==
    /\ act[a].pc = "returned"
    /\ act[a].invoked
    /\ act[a].result = Ok(StageName)

\* Every fragment of a fan-out that invoke_next_functions returned from has
\* been accepted by the platform.
C7_AllAccepted ==
    \A a \in Ids :
        act[a].invoked =>
            \A i \in 0 .. act[a].builder.seq_len - 1 : AcceptedOnce(act[a].builder, i)

\* C7: invoke_next_functions returns only when the platform has accepted
\* every fragment; if the platform accepts each invocation after finitely
\* many refusals the activation leaves the loops, which it does only by its
\* acknowledgment, and while one fragment is refused forever the activation
\* stays inside the loops.
C7_ReturnsAfterAcceptance ==
    /\ []C7_AllAccepted
    /\ [][\A a \in Ids : /\ Stuck(a) => Stuck(a)'
                         /\ InFlight(a) /\ ~InFlight(a)' => Acknowledged(a)']_vars
    /\ (\E a \in Ids : CanFinish(a)) ~> (\A a \in Ids : ~InFlight(a))

\* An activation has acknowledged a fan-out of two fragments after the
\* platform spent all its refusals.
C7_Witness ==
    \E a \in Ids :
        /\ Acknowledged(a)
        /\ act[a].builder.seq_len = 2
        /\ refusals = MaxRejects

\* The activation has built the UuidBuilder of a fan-out.
FannedOut(a) == act[a].builder # NoBuilder

\* The sequence indices of the accepted invocations of the fan-out of a.
IndicesOf(a) == {r.uuid.seq_num : r \in SentOf(act[a].builder.tid)}

C9_SingleInvokedOnce ==
    \A a \in Ids :
        (/\ Initialized
         /\ ctx.next.kind = "Solo"
         /\ act[a].invoked
         /\ act[a].builder.seq_len >= 1) =>
            /\ Cardinality(SentOf(act[a].builder.tid)) = 1
            /\ \A r \in SentOf(act[a].builder.tid) : CopiesIn(r, sent) = 1

\* C9, amended: a Solo-routed stage has its one target accept one invocation
\* per coalesced output batch of the activation, k invocations for k batches
\* (none for an empty output), which together carry the coalesced output of
\* that activation in order; it is invoked exactly once when the coalesce
\* step yields one batch.
C9_SingleInvokedPerBatch ==
    \A a \in Ids :
        (Initialized /\ ctx.next.kind = "Solo" /\ act[a].invoked) =>
            LET S == SentOf(act[a].builder.tid)
            IN /\ Cardinality(S) = Len(Coalesced(a))
               /\ IndicesOf(a) = 0 .. Len(Coalesced(a)) - 1
               /\ \A r \in S :
                     /\ CopiesIn(r, sent) = 1
                     /\ {r.function_name} = NextTargets(ctx.next)
                     /\ r.batch = Coalesced(a)[r.uuid.seq_num + 1]

\* A Solo-routed stage has acknowledged an activation whose coalesced output
\* was two batches, after its target accepted two invocations.
C9_Witness ==
    /\ Initialized
    /\ ctx.next.kind = "Solo"
    /\ \E a \in Ids :
         /\ act[a].invoked
         /\ Len(Coalesced(a)) = 2
         /\ Cardinality(SentOf(act[a].builder.tid)) = 2

\* C10: the TaskIds of a fan-out of k output batches all carry the name of
\* the invoking stage and total_fragments = k; the payload of output batch i
\* carries sequence_index i, at its first attempt and at every retry, so the
\* accepted indices are those of the loops that ended and, once the fan-out
\* is acknowledged, exactly 0 .. k-1, each once.
C10_TaskIds ==
    \A a \in Ids :
        FannedOut(a) =>
            LET S == SentOf(act[a].builder.tid)
                k == act[a].builder.seq_len
            IN /\ act[a].builder.tid[1] = ctx.name
               /\ k = Len(Coalesced(a))
               /\ \A r \in S :
                     /\ r.uuid.seq_len = k
                     /\ r.uuid.seq_num \in 0 .. k - 1
                     /\ r.batch = Coalesced(a)[r.uuid.seq_num + 1]
                     /\ CopiesIn(r, sent) = 1
               /\ \A r1, r2 \in S : r1.uuid.seq_num = r2.uuid.seq_num => r1 = r2
               /\ InFlight(a) =>
                     IndicesOf(a) = {i \in DOMAIN act[a].frags : act[a].frags[i].done}
               /\ act[a].invoked => IndicesOf(a) = 0 .. k - 1

\* In a fan-out of two batches, batch 1 was refused and then accepted under
\* sequence index 1 while batch 0 is not accepted yet.
C10_Witness ==
    \E a \in Ids :
        /\ InFlight(a)
        /\ act[a].builder.seq_len = 2
        /\ act[a].frags[1].done
        /\ act[a].frags[1].rejected >= 1
        /\ IndicesOf(a) = {1}

\* The number of payloads the platform accepted under group identity t: what
\* the Arena of the receiving instance accumulates under that one entry.
Received(t) == SumOver([r \in SentOf(t) |-> CopiesIn(r, sent)], SentOf(t))

C12_TerminalNoInvocation ==
    (Initialized /\ ctx.next.kind = "None") =>
        /\ sent = EmptyBag
        /\ fanouts = 0
        /\ \A a \in Ids :
              /\ ~FannedOut(a) /\ ~act[a].invoked /\ ~InFlight(a)
              /\ (act[a].executed > 0 /\ ~plan.fails) =>
                    \/ act[a].pc = "sink" /\ act[a].result = Pending
                    \/ act[a].pc = "returned" /\ act[a].result = Ok(StageName)

\* A terminal stage fed by payloads has run its sub-plan on a reassembled
\* group of two, got two batches out of it and returned the acknowledgment.
C12_Witness ==
    /\ PayloadStage
    /\ ctx.next.kind = "None"
    /\ Len(plan.rows) = 2
    /\ \E a \in Ids :
         /\ Len(act[a].input) = 2
         /\ act[a].executed = 1
         /\ act[a].result = Ok(StageName)

\* The error values and panic messages an activation may end with.
Failures ==
    {NotCompleted, EmptyPayload, ComputeFailed, NoNexmarkInput, NoContext,
     UninitializedContext, Poisoned, Unimplemented, DecodeFailed, AssertFailed}

\* C13: an activation that has returned has ended in success, in an error or
\* in a panic; on both branches a success carries exactly the name of the
\* stage, as the descriptor in the environment gives it, and is returned
\* only after the sub-plan ran without error; an error or a panic carries
\* its message, never the acknowledgment.
C13_AckIsStageName ==
    \A a \in Ids :
        /\ (act[a].pc = "returned") <=> (act[a].result # Pending)
        /\ act[a].pc = "returned" =>
              /\ act[a].result.tag \in {"Ok", "Err", "Panic"}
              /\ act[a].result.tag = "Ok" =>
                    /\ act[a].result.value = env.value.name
                    /\ env.var = "set"
                    /\ act[a].executed = 1 /\ ~plan.fails
              /\ act[a].result.tag # "Ok" =>
                    /\ act[a].result.value \in Failures
                    /\ act[a].result.value # env.value.name

\* On the external-event branch two activations have returned the
\* acknowledgment, one of them for an event of three batches of bids.
C13_Witness ==
    /\ Initialized
    /\ ctx.datasource = "NexMarkEvent"
    /\ \E a, b \in Ids :
         /\ a # b
         /\ events[a].bids = 3
         /\ act[a].result = Ok(StageName)
         /\ act[b].result = Ok(StageName)

\* The descriptor held by a context: everything but the source that
\* ctx.feed_one_source replaces on every activation.
Descriptor(c) == [c EXCEPT !.source = <<>>]

\* The activation has come back from INIT.call_once.
PastInit(a) == act[a].pc \notin {"pending", "call_once", "init_context", "returned"}

\* The state half of C14: the closure has run at most once; the context is
\* Ready exactly when the closure has run to its end, and then holds the
\* descriptor of the environment; every activation past the initialization
\* finds it Ready.
C14_Latched ==
    /\ inits <= 1
    /\ Initialized <=> (INIT = "Complete")
    /\ Initialized => inits = 1 /\ Descriptor(ctx) = env.value /\ env.var = "set"
    /\ \A a \in Ids : PastInit(a) => Initialized

\* The step half of C14: a Ready context stays Ready with the same
\* descriptor, the closure does not run again, and the Arena changes only
\* by one more batch under a group or by the removal of a complete group.
C14_Step ==
    Initialized =>
        /\ Initialized'
        /\ inits' = inits
        /\ Descriptor(ctx') = Descriptor(ctx)
        /\ \A g \in Groups :
              \/ arena'[g] = arena[g]
              \/ /\ arena'[g].present
                 /\ Len(arena'[g].batches) = Len(arena[g].batches) + 1
                 /\ SubSeq(arena'[g].batches, 1, Len(arena[g].batches)) = arena[g].batches
              \/ /\ ArenaReady(arena[g])
                 /\ arena'[g] = NoEntry

C15_InitOnceUnderRace ==
    /\ inits <= 1
    /\ Cardinality({a \in Ids : act[a].pc = "init_context"}) <= 1
    /\ (INIT = "Running") <=> (\E a \in Ids : act[a].pc = "init_context")
    /\ (\E a \in Ids : PastInit(a)) => (inits = 1 /\ INIT = "Complete")
    /\ \A a \in Ids :
          PastInit(a) =>
              /\ Initialized
              /\ Descriptor(ctx) = env.value
              /\ DOMAIN arena = Groups

\* One first activation is inside the closure while another waits in
\* call_once, the context still Uninitialized.
C15_Witness ==
    /\ ~Initialized
    /\ INIT = "Running"
    /\ \E a, b \in Ids :
         /\ act[a].pc = "init_context"
         /\ act[b].pc = "call_once"

\* C16: when the variable of the descriptor is not set, or holds text that
\* does not unmarshal, the closure runs once and panics, no activation gets
\* past the initialization, every activation that ends does so in a panic,
\* the context stays Uninitialized, the sub-plan never runs, nothing is put
\* into an Arena and nothing is invoked.
C16_NoDescriptorAborts ==
    env.var # "set" =>
        /\ ~Initialized
        /\ inits <= 1
        /\ INIT \in {"Incomplete", "Running", "Poisoned"}
        /\ sent = EmptyBag
        /\ fanouts = 0
        /\ \A a \in Ids :
              /\ act[a].pc \in {"pending", "call_once", "init_context", "returned"}
              /\ act[a].executed = 0
              /\ ~HasPut(a)
              /\ ~FannedOut(a)
              /\ act[a].pc = "returned" =>
                    \/ act[a].result =
                          Panic(IF env.var = "unset" THEN NoContext ELSE DecodeFailed)
                    \/ act[a].result = Panic(Poisoned)

\* With the variable not set, the first activation has panicked inside the
\* closure and the second on the poisoned Once.
C16_Witness ==
    /\ env.var = "unset"
    /\ inits = 1
    /\ \E a, b \in Ids :
         /\ act[a].result = Panic(NoContext)
         /\ act[b].result = Panic(Poisoned)

\* The input of the activation is empty: the payload of a stage that does not
\* reassemble holds no batch, the batches taken from the Arena are none or
\* begin with none, or the event of a stage that computes on the bids holds
\* no bid.
HasEmptyInput(a) ==
    /\ Initialized
    /\ to_batch(events[a]) # <<>>
    /\ CASE ctx.datasource = "Payload" ->
               IF RequiresReassembly(ctx.next)
               THEN act[a].took /\ IsEmptyInput(act[a].input)
               ELSE events[a].batch = <<>>
          [] ctx.datasource = "NexMarkEvent" ->
               /\ ctx.window = "None"
               /\ ctx.query_number = <<0>>
               /\ events[a].bids = 0
          [] OTHER -> FALSE

\* C17: an activation whose input is empty has, once it has returned, ended
\* with an error value, not with the acknowledgment and not with a panic,
\* and it has neither run the sub-plan nor invoked the next stage.
C17_EmptyInputIsError ==
    \A a \in Ids :
        (HasEmptyInput(a) /\ act[a].pc = "returned") =>
            /\ act[a].result.tag = "Err"
            /\ act[a].executed = 0
            /\ ~FannedOut(a)

\* C18: the sub-plan runs at most once in an activation; when it fails the
\* activation has returned its error, and no TaskId has been minted and no
\* invocation issued by any activation of the stage.
C18_ComputeErrorPropagates ==
    /\ \A a \in Ids : act[a].executed <= 1
    /\ plan.fails =>
          /\ sent = EmptyBag
          /\ fanouts = 0
          /\ \A a \in Ids :
                /\ ~FannedOut(a) /\ ~act[a].invoked /\ ~InFlight(a)
                /\ act[a].executed > 0 =>
                      /\ act[a].pc = "returned"
                      /\ act[a].result = Err(ComputeFailed)

\* In a Solo-routed stage the sub-plan has failed on a reassembled group of
\* two and the activation has returned the error.
C18_Witness ==
    /\ PayloadStage
    /\ ctx.next.kind = "Solo"
    /\ plan.fails
    /\ \E a \in Ids :
         /\ Len(act[a].input) = 2
         /\ act[a].executed = 1
         /\ act[a].result = Err(ComputeFailed)

\* The activation's payload does not decode.
Undecodable(a) == PayloadStage /\ to_batch(events[a]) = <<>>

C19_Dropped ==
    \A a \in Ids :
        (Undecodable(a) /\ act[a].pc = "returned") =>
            /\ act[a].result = Panic(DecodeFailed)
            /\ ~HasPut(a)
            /\ act[a].executed = 0
            /\ ~FannedOut(a)

C19_Step ==
    \A a \in Ids :
        (Undecodable(a) /\ act[a]' # act[a]) =>
            EXECUTION_CONTEXT'.arena = EXECUTION_CONTEXT.arena

MeetsUnhandledVariant(a) ==
    /\ Initialized
    /\ \/ ctx.datasource \notin {"Payload", "NexMarkEvent"}
       \/ /\ ctx.datasource = "NexMarkEvent"
          /\ \/ ctx.window # "None"
             \/ /\ ~events[a].corrupt
                /\ events[a].persons + events[a].auctions + events[a].bids > 0
                /\ ctx.query_number # <<0>>

\* C21: an activation that meets an unhandled data source, window or query
\* number ends with an error value, not with a panic.
C21_UnhandledVariantIsError ==
    \A a \in Ids :
        (MeetsUnhandledVariant(a) /\ act[a].pc = "returned") =>
            act[a].result.tag = "Err"

\* The platform holds the fragments of the fan-outs of a reassembling stage
\* (the environment and the deliveries are the same in every state).
Delivered ==
    /\ env.var = "set"
    /\ env.value.datasource = "Payload"
    /\ RequiresReassembly(env.value.next)

\* Nothing stands in the way of an acknowledgment: every fragment decodes to
\* a batch that is not empty, the sub-plan succeeds and the platform accepts
\* every invocation after finitely many refusals.
Unhindered ==
    /\ Delivered
    /\ \A a \in Ids : events[a].present => ~events[a].corrupt /\ events[a].batch # <<>>
    /\ ~plan.fails
    /\ rejecting = {}

\* One activation of the group has run the sub-plan once, on the batches of
\* all its fragments, and has acknowledged; every other has ended with the
\* not-completed error without running it.
GroupSettled(g) ==
    \E a \in FragmentsOf(g) :
        /\ act[a].pc = "returned"
        /\ act[a].result = Ok(StageName)
        /\ act[a].executed = 1
        /\ Len(act[a].input) = events[a].uuid.seq_len
        /\ Range(act[a].input) = {events[b].batch : b \in FragmentsOf(g)}
        /\ \A b \in FragmentsOf(g) \ {a} :
              /\ act[b].pc = "returned"
              /\ act[b].result = Err(NotCompleted)
              /\ act[b].executed = 0

AllSettled == \A g \in Groups : FragmentsOf(g) # {} => GroupSettled(g)

\* The sub-plan is run at most once for a group, and only on all its batches.
C22_RunOnce ==
    Delivered =>
        \A g \in Groups :
            /\ SumOver([a \in Ids |-> act[a].executed], FragmentsOf(g)) <= 1
            /\ \A a \in FragmentsOf(g) :
                  act[a].executed > 0 =>
                      Range(act[a].input) = {events[b].batch : b \in FragmentsOf(g)}

C23_DuplicatesHarmless ==
    Initialized =>
        \A g \in Groups :
            /\ SumOver([a \in Ids |-> act[a].executed], FragmentsOf(g)) <= 1
            /\ \A a \in FragmentsOf(g) :
                  act[a].took =>
                      {events[b].batch : b \in FragmentsOf(g)} \subseteq Range(act[a].input)
            /\ arena[g].present => Len(arena[g].batches) <= arena[g].size

\* A step that changes an Arena entry is a step of arena.reassemble or of
\* arena.batches in a payload activation of a stage routed None or Solo.
C24_Step ==
    (Initialized /\ EXECUTION_CONTEXT'.arena # EXECUTION_CONTEXT.arena) =>
        /\ ctx.datasource = "Payload"
        /\ ctx.next.kind \in {"None", "Solo"}
        /\ \E a \in Ids : act[a].pc \in {"reassemble", "ready"} /\ act'[a] # act[a]

\* A stage fed by external events has issued no downstream invocation and
\* built no fan-out, whatever its routing.
C24_NoInvocation ==
    (Initialized /\ ctx.datasource = "NexMarkEvent") =>
        /\ sent = EmptyBag
        /\ fanouts = 0
        /\ \A a \in Ids : ~act[a].invoked /\ ~FannedOut(a) /\ ~HasPut(a)

\* C24: the Arena is changed only by payload activations of a stage routed
\* None or Solo; an external-event activation and a payload activation of a
\* Chorus-routed stage leave every entry as it was, and an external-event
\* activation issues no downstream invocation.
C24_ArenaFrame == []C24_NoInvocation /\ [][C24_Step]_vars

\* An external-event activation of a stage routed to one target has run the
\* sub-plan and acknowledged while the Arena is as it was created.
C24_Witness ==
    /\ Initialized
    /\ ctx.datasource = "NexMarkEvent"
    /\ ctx.next.kind = "Solo"
    /\ arena = ArenaNew
    /\ \E a \in Ids : act[a].executed = 1 /\ act[a].result = Ok(StageName)

\* C25: on the external-event branch, feed_one_source with n >= 1 batches
\* and parallelism p >= 0 has fed the sub-plan the round-robin repartition
\* into min(n, p) partitions when n > 1 and the single batch as one
\* partition when n = 1, and the number of partitions it asked for is at
\* least 1.
C25_FeedPartitions ==
    \A a \in Ids :
        (Initialized /\ ctx.datasource = "NexMarkEvent"
            /\ act[a].pc = "collect_execute") =>
            LET n == Len(act[a].input)
            IN /\ n >= 1
               /\ Len(ctx.source) >= 1
               /\ n > 1 => ctx.source = repartition(act[a].input, Min(n, parallelism))
               /\ n = 1 => ctx.source = <<act[a].input>>

\* C26: with a window, an event is sent only once the reserved concurrency
\* is 1, every event is sent asynchronously and once, the event of time t+1
\* of a generator only after its event of time t was answered with success,
\* and nothing more of a generator after a failure; without a window every
\* event is sent synchronously and at most once, whatever the order of the
\* pairs, and a run that ends well has sent each pair's event exactly once.
C26_DriverSends ==
    /\ \A e \in Pairs :
          /\ bench.issued[e] <= 1
          /\ bench.issued[e] > 0 =>
                /\ e \in {p \in Pairs : p[1] < bench.seconds /\ p[2] < bench.generators}
                /\ bench.invocation_type[e] =
                      IF bench.windowed THEN LAMBDA_ASYNC_CALL ELSE LAMBDA_SYNC_CALL
          /\ bench.response[e] # "none" => bench.issued[e] = 1
    /\ bench.windowed =>
          \A e \in Pairs :
              bench.issued[e] > 0 =>
                  /\ bench.concurrency = 1
                  /\ e[1] > 0 => bench.response[<<e[1] - 1, e[2]>>] = "ok"
    /\ ~bench.windowed =>
          /\ bench.concurrency = 0
          /\ (bench.pc = "returned" /\ bench.result.tag = "Ok") =>
                \A e \in Pairs :
                    (e[1] < bench.seconds /\ e[2] < bench.generators) =>
                        bench.issued[e] = 1 /\ bench.response[e] = "ok"

\* With a window, generator 0 has had its first event accepted and has sent
\* its second, while generator 1 stopped after the failure of its first.
C26_Witness ==
    /\ bench.windowed
    /\ bench.seconds = 2
    /\ bench.response[<<0, 0>>] = "ok"
    /\ bench.issued[<<1, 0>>] = 1
    /\ bench.response[<<0, 1>>] = "err"
    /\ bench.issued[<<1, 1>>] = 0
====
